---- MODULE Spec2Model ----
(***************************************************************************)
(* Disaster early-warning server: the ingestion pipeline                   *)
(* (cron callbacks -> DataCollectorService -> AlertService.evaluateAlerts  *)
(* -> Alert store -> socket.io broadcast), the alert REST handlers and the *)
(* WebSocketService subscriptions.                                         *)
(*                                                                         *)
(* Conventions.  Time is in minutes; the clock moves in steps of ClockStep *)
(* minutes.  Earthquake magnitudes and coordinates are in tenths (6.2 is   *)
(* 62, 27.7 degrees is 277); every other measurement is compared against   *)
(* integer thresholds with >=, so it is kept in whole units.  A            *)
(* measurement that is absent is 0: the code tests `!magnitude`,           *)
(* `windSpeed && ...`, which treat undefined and 0 alike.                  *)
(***************************************************************************)
EXTENDS Integers, Sequences, FiniteSets, TLC

\* ------------------------------------------------------------ thresholds
\* this.thresholds of AlertService, magnitudes in tenths
EqLow == 30
EqMedium == 45
EqHigh == 60
EqCritical == 70
WindLow == 40
WindMedium == 70
WindHigh == 100
WindCritical == 150
RainLow == 30
RainMedium == 60
RainHigh == 100
RainCritical == 150
TempHeatwave == 42
TempExtreme == 45
WaterLow == 3
WaterMedium == 5
WaterHigh == 8
WaterCritical == 12

\* the dedup box of _evaluateEarthquake, +-0.5 degree in tenths
BoxTenths == 5

\* evaluateAlerts reads the readings of the last 30 minutes
RecentWindowMin == 30
\* lookback of each findOne, minutes
EqLookbackMin == 60
StormLookbackMin == 120
HeatLookbackMin == 360
FloodLookbackMin == 180
\* expiresAt of each new Alert, minutes after its construction
EqTtlMin == 1440
StormTtlMin == 720
HeatTtlMin == 1440
FloodTtlMin == 2880

\* ---------------------------------------------------------------- bounds
\* minutes in the shortest clock step
ClockStep == 10
\* documents the SensorData collection may hold
MaxReadings == 2
\* cron callbacks fired in a behaviour of SpecIngest
MaxTicks == 2
\* cron callbacks fired and clock steps taken in a behaviour of SpecSerial
MaxSerialTicks == 2
MaxClockSteps == 1
\* socket events and cron callbacks in a behaviour of SpecFanout
MaxSocketEvents == 3
MaxFanoutTicks == 1
\* readings stored and cron callbacks in a behaviour of SpecBox
MaxBoxReadings == 2
MaxBoxTicks == 2
\* alerts created, requests rejected and pushes on their way to the App in
\* a behaviour of SpecClient
MaxAppAlerts == 52
MaxRejected == 1
MaxInFlight == 2
\* socket events in the runs of SpecSocket
MaxSocketLife == 4
\* HTTP requests and cron callbacks in a behaviour of SpecStatus, SpecCollect
MaxRequests == 2
MaxStatusTicks == 1
MaxCollectTicks == 2
MaxCollectRequests == 1
\* cron callbacks in a behaviour of SpecHang
MaxHangTicks == 1
\* readings stored and cron callbacks fired in a behaviour of SpecClassify
MaxClassifyReadings == 1
MaxClassifyTicks == 1
\* HTTP requests in a behaviour of SpecAnalyze
MaxAnalyzeRequests == 2

\* the lookback windows of the findOne calls
Windows == {EqLookbackMin, StormLookbackMin, FloodLookbackMin, HeatLookbackMin}

\* one clock step is the shortest step, a whole lookback window, or a window
\* and the shortest step
ClockJumps == {ClockStep} \cup Windows \cup {w + ClockStep : w \in Windows}

\* ------------------------------------------------------------ vocabulary
Severities == {"low", "medium", "high", "critical"}
Statuses == {"active", "monitoring", "resolved", "expired"}
Categories == {"weather", "earthquake", "flood"}
None == [none |-> TRUE]

\* ------------------------------------------------- Threshold classifier
\* _evaluateEarthquake, the severity ladder (null below the low boundary)
\* variant: the boundaries compared with > instead of >=
EarthquakeSeverityStrict(magnitude) ==
    IF magnitude = 0 \/ magnitude <= EqLow THEN "none"
    ELSE IF magnitude > EqCritical THEN "critical"
    ELSE IF magnitude > EqHigh THEN "high"
    ELSE IF magnitude > EqMedium THEN "medium"
    ELSE "low"

EarthquakeSeverity(magnitude) ==
    IF magnitude = 0 \/ magnitude < EqLow THEN "none"
    ELSE IF magnitude >= EqCritical THEN "critical"
    ELSE IF magnitude >= EqHigh THEN "high"
    ELSE IF magnitude >= EqMedium THEN "medium"
    ELSE "low"

\* _evaluateWeather, the wind branch
WindSeverity(windSpeed) ==
    IF ~(windSpeed # 0 /\ windSpeed >= WindLow) THEN "none"
    ELSE IF windSpeed >= WindCritical THEN "critical"
    ELSE IF windSpeed >= WindHigh THEN "high"
    ELSE IF windSpeed >= WindMedium THEN "medium"
    ELSE "low"

\* variant: the hazard type switched at the critical boundary
WindTypeCritical(windSpeed) ==
    IF windSpeed >= WindCritical THEN "cyclone" ELSE "storm"

WindType(windSpeed) ==
    IF windSpeed >= WindHigh THEN "cyclone" ELSE "storm"

\* _evaluateWeather, the heatwave branch
HeatSeverity(temperature) ==
    IF ~(temperature # 0 /\ temperature >= TempHeatwave) THEN "none"
    ELSE IF temperature >= TempExtreme THEN "critical"
    ELSE "high"

\* _evaluateFlood, the severity ladder (rainfall is read but never compared)
FloodSeverity(waterLevel) ==
    IF waterLevel = 0 \/ waterLevel < WaterLow THEN "none"
    ELSE IF waterLevel >= WaterCritical THEN "critical"
    ELSE IF waterLevel >= WaterHigh THEN "high"
    ELSE IF waterLevel >= WaterMedium THEN "medium"
    ELSE "low"

\* the createdAt lower bound of each findOne
\* variant: one window for every hazard type
LookbackUniform(type) == StormLookbackMin

Lookback(type) ==
    CASE type = "earthquake" -> EqLookbackMin
      [] type \in {"storm", "cyclone"} -> StormLookbackMin
      [] type = "heatwave" -> HeatLookbackMin
      [] type = "flood" -> FloodLookbackMin

\* the expiresAt offset of each new Alert
\* variant: an alert lives as long as its lookback window
TtlOfWindow(type) == Lookback(type)

Ttl(type) ==
    CASE type = "earthquake" -> EqTtlMin
      [] type \in {"storm", "cyclone"} -> StormTtlMin
      [] type = "heatwave" -> HeatTtlMin
      [] type = "flood" -> FloodTtlMin

\* ------------------------------------------------------------- locations
\* coordinates in tenths of a degree
Nepal == [name |-> "Nepal Border", latitude |-> 277, longitude |-> 853]
Kathmandu == [name |-> "Kathmandu, Nepal", latitude |-> 277, longitude |-> 853]
Ganges == [name |-> "Ganges Basin", latitude |-> 253, longitude |-> 829]
\* Delhi as seed.js names it and as the collector's monitoredLocations do
\* (28.6, 77.2 and 28.6139, 77.2090)
Delhi == [name |-> "Delhi", latitude |-> 286, longitude |-> 772]
DelhiIndia == [name |-> "Delhi, India", latitude |-> 286, longitude |-> 772]
\* a SensorData document whose optional location.name was never set
Unnamed == [name |-> "", latitude |-> 253, longitude |-> 829]

NoReadings ==
    [magnitude |-> 0, windSpeed |-> 0, temperature |-> 0, waterLevel |-> 0,
     rainfall |-> 0]

Payload(type, source, location, readings) ==
    [type |-> type, source |-> source, location |-> location, readings |-> readings]

\* what the USGS feed can deliver to collectEarthquakeData
EarthquakePayloads ==
    { Payload("earthquake", "usgs", Nepal, [NoReadings EXCEPT !.magnitude = 62]),
      Payload("earthquake", "usgs", Ganges, [NoReadings EXCEPT !.magnitude = 29]) }

\* what OpenWeatherMap can deliver to collectWeatherData
WeatherPayloads ==
    { Payload("weather", "openweather", Kathmandu,
              [NoReadings EXCEPT !.windSpeed = 140, !.temperature = 43]),
      Payload("weather", "openweather", Kathmandu,
              [NoReadings EXCEPT !.windSpeed = 50, !.temperature = 30]) }

\* flood documents reach SensorData only from outside the collector:
\* collectFloodData returns generated readings and saves none
FloodPayloads ==
    { Payload("flood", "sensor", Ganges, [NoReadings EXCEPT !.waterLevel = 8]),
      Payload("flood", "sensor", Unnamed, [NoReadings EXCEPT !.waterLevel = 9]) }

\* the weather reading of Delhi that seed.js inserts (43.5 degrees, taken as
\* 43, wind 15) and the same weather as collectWeatherData stores it
DelhiPayloads ==
    { Payload("weather", "openweather", Delhi,
              [NoReadings EXCEPT !.windSpeed = 15, !.temperature = 43]),
      Payload("weather", "openweather", DelhiIndia,
              [NoReadings EXCEPT !.windSpeed = 15, !.temperature = 43]) }

\* weather readings around the two temperature boundaries, the wind calm
HeatPayloads ==
    { Payload("weather", "openweather", Kathmandu,
              [NoReadings EXCEPT !.windSpeed = 15, !.temperature = t]) :
        t \in {TempHeatwave - 1, TempHeatwave, TempExtreme - 1, TempExtreme} }

\* readings around every boundary of the threshold tables, one measurement
\* each, and readings whose rainfall is over its table while the wind or the
\* water level is low or under its table
TierPayloads ==
    { Payload("earthquake", "usgs", Nepal, [NoReadings EXCEPT !.magnitude = m]) :
        m \in {EqLow - 1, EqLow, EqMedium - 1, EqMedium, EqHigh - 1, EqHigh, 62,
               EqCritical - 1, EqCritical} }
    \cup
    { Payload("weather", "openweather", Kathmandu,
              [NoReadings EXCEPT !.windSpeed = w]) :
        w \in {WindLow - 1, WindLow, WindMedium - 1, WindMedium, WindHigh - 1,
               WindHigh, 140, WindCritical - 1, WindCritical} }
    \cup
    { Payload("flood", "sensor", Ganges, [NoReadings EXCEPT !.waterLevel = l]) :
        l \in {WaterLow - 1, WaterLow, WaterMedium - 1, WaterMedium, WaterHigh - 1,
               WaterHigh, WaterCritical - 1, WaterCritical} }
    \cup
    { Payload("weather", "openweather", Kathmandu,
              [NoReadings EXCEPT !.windSpeed = w, !.rainfall = RainCritical + 10]) :
        w \in {10, 50} }
    \cup
    { Payload("flood", "sensor", Ganges,
              [NoReadings EXCEPT !.waterLevel = l, !.rainfall = RainCritical + 10]) :
        l \in {1, 3} }

\* ----------------------------------------------------------------- state
VARIABLES
    now,          \* Date.now(), minutes
    clockSteps,   \* steps the clock has taken
    sensorData,   \* the SensorData collection, in insertion order
    alerts,       \* the Alert collection, in insertion order; _id is the index
    run,          \* per cron callback: where its tick stands and its locals
    ticks,        \* cron callbacks started so far
    sockets,      \* the connected socket ids
    connectedClients, \* WebSocketService.connectedClients: id -> subscriptions
    rooms,        \* the rooms each socket has joined
    socketEvents, \* socket events handled so far
    disconnects,  \* per socket: disconnect events handled since it connected
    emitted,      \* io.emit calls so far, in order, each with its receivers
    requests,     \* HTTP requests handled so far
    response,     \* the response to the last HTTP request
    predictions,  \* the Prediction collection, in insertion order
    appAlerts,    \* the client App's `alerts` state: alert ids, head first
    delivered     \* io.emit calls that have reached the App's socket so far

vars ==
    <<now, clockSteps, sensorData, alerts, run, ticks, sockets, connectedClients,
      rooms, socketEvents, disconnects, emitted, requests, response,
      predictions, appAlerts, delivered>>

clockVars == <<now, clockSteps>>
storeVars == <<sensorData, alerts>>
cronVars == <<run, ticks>>
socketVars == <<sockets, connectedClients, rooms, socketEvents, disconnects>>
httpVars == <<requests, response>>
appVars == <<appAlerts, delivered>>

Clients == {"c1", "c2"}

\* a cron callback between two ticks, its locals gone; `failed` tells whether
\* the collect of the running tick met a failure, `returned` how many readings
\* it resolved with (kept until evaluateAlerts has done its find), `last` how
\* the previous tick ended: "returned" from evaluateAlerts, "caught" by the
\* catch of evaluateAlerts, "failed" into the catch of the callback
IdleRun ==
    [pc |-> "idle", tick |-> 0, failed |-> FALSE, returned |-> 0, data |-> <<>>,
     i |-> 0, phase |-> 0, alert |-> None, ret |-> 0, newAlerts |-> <<>>,
     last |-> "none"]

Ended(how) == [IdleRun EXCEPT !.last = how]

Init ==
    /\ now = 0
    /\ clockSteps = 0
    /\ sensorData = <<>>
    /\ alerts = <<>>
    /\ run = [p \in Categories |-> IdleRun]
    /\ ticks = 0
    /\ sockets = {}
    /\ connectedClients = [c \in {} |-> {}]
    /\ rooms = [c \in Clients |-> {}]
    /\ socketEvents = 0
    /\ disconnects = [c \in Clients |-> 0]
    /\ emitted = <<>>
    /\ requests = 0
    /\ response = None
    /\ predictions = <<>>
    /\ appAlerts = <<>>
    /\ delivered = 0

\* ------------------------------------------------------ AlertService
\* the awaits of one _evaluate* call: one findOne/save pair for an
\* earthquake or flood reading, two (wind, then heat) for a weather reading
NumPhases(r) ==
    CASE r.type = "earthquake" -> 1
      [] r.type = "weather" -> 2
      [] r.type = "flood" -> 1
      [] OTHER -> 0

CandidateSeverity(r, phase) ==
    CASE r.type = "earthquake" -> EarthquakeSeverity(r.readings.magnitude)
      [] r.type = "weather" /\ phase = 1 -> WindSeverity(r.readings.windSpeed)
      [] r.type = "weather" /\ phase = 2 -> HeatSeverity(r.readings.temperature)
      [] r.type = "flood" -> FloodSeverity(r.readings.waterLevel)
      [] OTHER -> "none"

CandidateType(r, phase) ==
    CASE r.type = "earthquake" -> "earthquake"
      [] r.type = "weather" /\ phase = 1 -> WindType(r.readings.windSpeed)
      [] r.type = "weather" /\ phase = 2 -> "heatwave"
      [] r.type = "flood" -> "flood"
      [] OTHER -> "none"

\* the filter of each Alert.findOne, evaluated at time t
SameEvent(a, type, location) ==
    IF type = "earthquake"
    THEN /\ a.location.latitude >= location.latitude - BoxTenths
         /\ a.location.latitude <= location.latitude + BoxTenths
         /\ a.location.longitude >= location.longitude - BoxTenths
         /\ a.location.longitude <= location.longitude + BoxTenths
    ELSE a.location.name = location.name

\* variant: the createdAt comparison turned around
FindFilterStale(a, type, location, t) ==
    /\ a.type = type
    /\ a.status = "active"
    /\ SameEvent(a, type, location)
    /\ a.createdAt <= t - Lookback(type)

FindFilter(a, type, location, t) ==
    /\ a.type = type
    /\ a.status = "active"
    /\ SameEvent(a, type, location)
    /\ a.createdAt >= t - Lookback(type)

FindOne(type, location, t) ==
    \E k \in 1..Len(alerts) : FindFilter(alerts[k], type, location, t)

\* variant: the higher tiers get a list of their own
GetEarthquakeRecommendationsReplaced(severity) ==
    IF severity \in {"high", "critical"}
    THEN <<"Be prepared for aftershocks",
           "Evacuate damaged buildings immediately",
           "Move to open areas away from structures",
           "Have emergency kit ready",
           "Follow official evacuation orders">>
    ELSE <<"Drop, Cover, and Hold On if shaking occurs",
           "Move away from windows and heavy objects",
           "Check for gas leaks after shaking stops">>

GetEarthquakeRecommendations(severity) ==
    LET base == <<"Drop, Cover, and Hold On if shaking occurs",
                  "Move away from windows and heavy objects",
                  "Check for gas leaks after shaking stops">>
    IN IF severity \in {"high", "critical"}
       THEN base \o <<"Be prepared for aftershocks",
                      "Evacuate damaged buildings immediately",
                      "Move to open areas away from structures",
                      "Have emergency kit ready",
                      "Follow official evacuation orders">>
       ELSE base

GetStormRecommendations(severity) ==
    LET base == <<"Secure loose outdoor objects",
                  "Stay indoors until storm passes",
                  "Keep emergency supplies ready">>
    IN IF severity \in {"high", "critical"}
       THEN base \o <<"Move to reinforced shelter immediately",
                      "Stay away from windows and exterior walls",
                      "Follow evacuation orders if issued",
                      "Charge all communication devices",
                      "Fill bathtubs and containers with water">>
       ELSE base

GetFloodRecommendations(severity) ==
    LET base == <<"Move to higher ground if water is rising",
                  "Avoid walking or driving through floodwater",
                  "Keep important documents in waterproof bags">>
    IN IF severity \in {"high", "critical"}
       THEN base \o <<"Evacuate immediately if ordered",
                      "Disconnect electrical appliances",
                      "Do not attempt to cross flooded roads",
                      "Signal for help if stranded",
                      "Boil drinking water after flooding">>
       ELSE base

\* _evaluateWeather, the heatwave branch: one list, whatever the severity
HeatwaveRecommendations ==
    <<"Stay indoors during peak hours (11 AM - 4 PM)",
      "Drink plenty of water and fluids",
      "Avoid strenuous outdoor activities",
      "Check on elderly and vulnerable people",
      "Keep pets indoors with water">>

\* the recommendations each _evaluate* attaches
Recommendations(type, severity) ==
    CASE type = "earthquake" -> GetEarthquakeRecommendations(severity)
      [] type \in {"storm", "cyclone"} -> GetStormRecommendations(severity)
      [] type = "flood" -> GetFloodRecommendations(severity)
      [] type = "heatwave" -> HeatwaveRecommendations

\* new Alert({...}) of each _evaluate*: expiresAt is taken from the clock at
\* construction, createdAt and the default status are set by save()
NewAlert(k, phase, t, tick) ==
    LET r == sensorData[k] IN
    [type |-> CandidateType(r, phase),
     severity |-> CandidateSeverity(r, phase),
     location |-> r.location,
     data |-> r.readings,
     source |-> r.source,
     recommendations |->
         Recommendations(CandidateType(r, phase), CandidateSeverity(r, phase)),
     expiresAt |-> t + Ttl(CandidateType(r, phase)),
     tick |-> tick, reading |-> k]

\* alertSchema: location.name is required, so save() rejects without it
Valid(a) == a.location.name # ""

Saved(a, t) ==
    [type |-> a.type, severity |-> a.severity, status |-> "active",
     location |-> a.location, data |-> a.data, source |-> a.source,
     recommendations |-> a.recommendations,
     createdAt |-> t, expiresAt |-> a.expiresAt, resolvedAt |-> 0,
     tick |-> a.tick, reading |-> a.reading]

\* a broadcast that still delivers to sockets that have closed
BroadcastsToJoined(ids) ==
    [n \in 1..Len(ids) |->
        [event |-> "new-alert", id |-> ids[n],
         to |-> sockets \cup {c \in Clients : disconnects[c] > 0}]]

\* _broadcastAlert for each of newAlerts: io.emit reaches every connected socket
Broadcasts(ids) ==
    [k \in 1..Len(ids) |-> [event |-> "new-alert", id |-> ids[k], to |-> sockets]]

RECURSIVE Continue(_)
\* the synchronous stretch of evaluateAlerts from (i, phase) to its next
\* await (pc "lookup") or to the end of the for loop (pc "finished")
Continue(rn) ==
    IF rn.i > Len(rn.data) THEN [rn EXCEPT !.pc = "finished"]
    ELSE LET r == sensorData[rn.data[rn.i]] IN
         IF rn.phase > NumPhases(r)
         THEN Continue([rn EXCEPT !.i = @ + 1, !.phase = 1, !.ret = 0,
                           !.newAlerts = IF rn.ret # 0 THEN Append(@, rn.ret) ELSE @])
         ELSE IF CandidateSeverity(r, rn.phase) = "none"
         THEN Continue([rn EXCEPT !.phase = @ + 1])
         ELSE [rn EXCEPT !.pc = "lookup"]

\* evaluateAlerts resumes after an await and runs to its next await, or to its
\* end, where it broadcasts newAlerts and returns to the cron callback
Resume(p, rn) ==
    LET c == Continue(rn) IN
    IF c.pc = "finished"
    THEN /\ emitted' = emitted \o Broadcasts(c.newAlerts)
         /\ run' = [run EXCEPT ![p] = Ended("returned")]
    ELSE /\ run' = [run EXCEPT ![p] = c]
         /\ UNCHANGED emitted

\* variant: a rejection nothing catches
ThrowUncaught(p) ==
    /\ run' = [run EXCEPT ![p] = [IdleRun EXCEPT !.pc = "crashed"]]
    /\ UNCHANGED emitted

\* a rejected await inside evaluateAlerts: `return this._evaluate*(data)` is not
\* awaited inside _evaluateDataPoint's try, so the rejection passes its catch
\* and lands in evaluateAlerts' catch, which logs and returns []
Throw(p) ==
    /\ run' = [run EXCEPT ![p] = Ended("caught")]
    /\ UNCHANGED emitted

\* ------------------------------------------------- DataCollectorService
\* sensorData.save(): the timestamps option sets createdAt
Stamp(docs, t) ==
    [k \in 1..Len(docs) |->
        [type |-> docs[k].type, source |-> docs[k].source,
         location |-> docs[k].location, readings |-> docs[k].readings,
         createdAt |-> t]]

\* the feed delivers nothing or one of the payloads
Batches(payloads) == {<<>>} \cup {<<d>> : d \in payloads}

\* what a collect*Data call did: the documents it saved, the batch it returned
\* (its size, generated or not), whether its source or a save failed on the
\* way, and whether the promise it returned rejected
Outcome(saved, simulated, n, failed) ==
    [saved |-> saved, simulated |-> simulated, n |-> n, failed |-> failed,
     rejected |-> FALSE]

\* variant: collectWeatherData without the try around each location
CollectWeatherDataUnguarded ==
    {Outcome(<<>>, TRUE, 10, FALSE)}
        \cup {Outcome(<<d>>, FALSE, 1, FALSE) : d \in WeatherPayloads}
        \cup {[Outcome(<<>>, FALSE, 0, TRUE) EXCEPT !.rejected = TRUE]}

\* collectWeatherData: without an API key the generated readings of the ten
\* monitored locations are returned and none is saved; with a key each
\* location is fetched and saved inside its own try, and a failing location
\* is logged and left out of the batch
CollectWeatherData ==
    {Outcome(<<>>, TRUE, 10, FALSE)}
        \cup {Outcome(<<d>>, FALSE, 1, f) : d \in WeatherPayloads, f \in BOOLEAN}
        \cup {Outcome(<<>>, FALSE, 0, TRUE)}

\* collectEarthquakeData: every feature of the feed is saved and returned; any
\* failure (the request, a save) is caught and 2 to 6 generated readings are
\* returned unsaved, the features saved before the failure staying stored
CollectEarthquakeData ==
    {Outcome(b, TRUE, n, TRUE) : b \in Batches(EarthquakePayloads), n \in {2, 6}}
        \cup {Outcome(b, FALSE, Len(b), FALSE) : b \in Batches(EarthquakePayloads)}

\* collectFloodData: five generated readings, none saved
CollectFloodData == {Outcome(<<>>, TRUE, 5, FALSE)}

Collect(category) ==
    CASE category = "weather" -> CollectWeatherData
      [] category = "earthquake" -> CollectEarthquakeData
      [] category = "flood" -> CollectFloodData

\* -------------------------------------------------------------- actions
\* the clock moves; a tick is taken to last less than one clock step
Advance(jumps) ==
    /\ \A p \in Categories : run[p].pc = "idle"
    /\ \E d \in jumps : now' = now + d
    /\ clockSteps' = clockSteps + 1
    /\ UNCHANGED <<storeVars, cronVars, socketVars, emitted, httpVars,
                   predictions, appVars>>

\* SensorData documents written by seed.js (flood sensor readings have no
\* other writer)
InsertSensorData ==
    /\ Len(sensorData) < MaxReadings
    /\ \E d \in FloodPayloads : sensorData' = sensorData \o Stamp(<<d>>, now)
    /\ UNCHANGED <<clockVars, appVars, alerts, cronVars, socketVars, emitted, httpVars,
                   predictions>>

\* sensorData.save() of one document of the given kind
SaveSensorData(payloads, limit) ==
    /\ Len(sensorData) < limit
    /\ \E d \in payloads : sensorData' = sensorData \o Stamp(<<d>>, now)
    /\ UNCHANGED <<clockVars, appVars, alerts, cronVars, socketVars, emitted, httpVars,
                   predictions>>

\* a cron callback fires and its collect*Data call completes; the callback
\* drops the batch and goes on to evaluateAlerts, unless the collect rejected,
\* which its catch logs
CronTick(p) ==
    /\ run[p].pc = "idle"
    /\ \E o \in Collect(p) :
          /\ Len(sensorData) + Len(o.saved) <= MaxReadings
          /\ sensorData' = sensorData \o Stamp(o.saved, now)
          /\ run' = [run EXCEPT ![p] =
                        IF o.rejected THEN Ended("failed")
                        ELSE [IdleRun EXCEPT !.pc = "read", !.tick = ticks + 1,
                                             !.failed = o.failed,
                                             !.returned = o.n,
                                             !.last = run[p].last]]
    /\ ticks' = ticks + 1
    /\ UNCHANGED <<clockVars, appVars, alerts, socketVars, emitted, httpVars, predictions>>

\* the timeout option of the axios.get of each collect, milliseconds; 0 is
\* axios' default: the request waits for its answer without a limit
RequestTimeout(category) ==
    CASE category = "weather" -> 0
      [] category = "earthquake" -> 10000

\* a cron callback whose source accepts the request and never answers: with a
\* timeout the request rejects and the collect goes on as with any failed
\* request; without one the callback stays at its await (pc "collect")
Hang(p) ==
    /\ run[p].pc = "idle"
    /\ p \in {"weather", "earthquake"}
    /\ run' = [run EXCEPT ![p] =
                  [IdleRun EXCEPT !.pc = IF RequestTimeout(p) > 0
                                         THEN "read" ELSE "collect",
                                  !.tick = ticks + 1,
                                  !.failed = RequestTimeout(p) > 0,
                                  !.last = run[p].last]]
    /\ ticks' = ticks + 1
    /\ UNCHANGED <<clockVars, appVars, storeVars, socketVars, emitted, httpVars,
                   predictions>>

\* the documents SensorData.find({createdAt >= now - 30 min}) matches
Recent(t) ==
    {k \in 1..Len(sensorData) : sensorData[k].createdAt >= t - RecentWindowMin}

\* .sort({createdAt: -1}): newest first, equal timestamps in any order
SortedDesc(ks) ==
    {q \in [1..Cardinality(ks) -> ks] :
        /\ \A a, b \in 1..Cardinality(ks) : a # b => q[a] # q[b]
        /\ \A a, b \in 1..Cardinality(ks) :
              a < b => sensorData[q[a]].createdAt >= sensorData[q[b]].createdAt}

\* evaluateAlerts: the find of the recent readings
ReadRecent(p) ==
    /\ run[p].pc = "read"
    /\ \/ \E q \in SortedDesc(Recent(now)) :
             IF Len(q) = 0
             THEN /\ run' = [run EXCEPT ![p] = Ended("returned")]
                  /\ UNCHANGED emitted
             ELSE Resume(p, [run[p] EXCEPT !.data = q, !.i = 1, !.phase = 1,
                                           !.returned = 0])
       \/ Throw(p)
    /\ UNCHANGED <<clockVars, appVars, storeVars, ticks, socketVars, httpVars, predictions>>

\* _evaluate*: the findOne for an existing alert of the same event
Lookup(p) ==
    /\ run[p].pc = "lookup"
    /\ LET rn == run[p]
           r == sensorData[rn.data[rn.i]]
       IN \/ IF FindOne(CandidateType(r, rn.phase), r.location, now)
             THEN Resume(p, [rn EXCEPT !.phase = @ + 1])
             ELSE /\ run' = [run EXCEPT ![p] =
                                [rn EXCEPT !.pc = "save",
                                           !.alert = NewAlert(rn.data[rn.i], rn.phase,
                                                              now, rn.tick)]]
                  /\ UNCHANGED emitted
          \/ Throw(p)
    /\ UNCHANGED <<clockVars, appVars, storeVars, ticks, socketVars, httpVars, predictions>>

\* _evaluate*: alert.save()
Save(p) ==
    /\ run[p].pc = "save"
    /\ LET rn == run[p] IN
       \/ /\ Valid(rn.alert)
          /\ alerts' = Append(alerts, Saved(rn.alert, now))
          /\ Resume(p, [rn EXCEPT !.alert = None, !.ret = Len(alerts) + 1,
                                  !.phase = @ + 1])
       \/ /\ Throw(p)
          /\ UNCHANGED alerts
    /\ UNCHANGED <<clockVars, appVars, sensorData, ticks, socketVars, httpVars,
                   predictions>>

\* ------------------------------------------------------ WebSocketService
SubscriptionLists == {{"flood"}, {"earthquake", "cyclone"}}

\* io.on('connection')
Connect(c) ==
    /\ c \notin sockets
    /\ sockets' = sockets \cup {c}
    /\ connectedClients' =
          [d \in DOMAIN connectedClients \cup {c} |->
              IF d = c THEN {} ELSE connectedClients[d]]
    /\ socketEvents' = socketEvents + 1
    /\ disconnects' = [disconnects EXCEPT ![c] = 0]
    /\ UNCHANGED <<clockVars, appVars, storeVars, cronVars, rooms, emitted, httpVars,
                   predictions>>

\* socket.on('subscribe'): the list replaces the recorded one; socket.join
\* adds its rooms to those already joined
Subscribe(c, types) ==
    /\ c \in sockets
    /\ connectedClients' =
          IF c \in DOMAIN connectedClients
          THEN [connectedClients EXCEPT ![c] = types]
          ELSE connectedClients
    /\ rooms' =
          IF c \in DOMAIN connectedClients
          THEN [rooms EXCEPT ![c] = @ \cup types]
          ELSE rooms
    /\ socketEvents' = socketEvents + 1
    /\ UNCHANGED <<clockVars, appVars, storeVars, cronVars, sockets, disconnects, emitted,
                   httpVars, predictions>>

\* socket.on('disconnect'): the entry is deleted; the closed socket has left
\* its rooms
Disconnect(c) ==
    /\ c \in sockets
    /\ sockets' = sockets \ {c}
    /\ connectedClients' =
          [d \in DOMAIN connectedClients \ {c} |-> connectedClients[d]]
    /\ rooms' = [rooms EXCEPT ![c] = {}]
    /\ socketEvents' = socketEvents + 1
    /\ disconnects' = [disconnects EXCEPT ![c] = @ + 1]
    /\ UNCHANGED <<clockVars, appVars, storeVars, cronVars, emitted, httpVars, predictions>>

\* the 'disconnect' handler run once more for a socket that is already closed:
\* Map.delete of a key that is not there returns false and changes nothing
DisconnectAgain(c) ==
    /\ c \notin sockets
    /\ disconnects[c] > 0
    /\ connectedClients' =
          [d \in DOMAIN connectedClients \ {c} |-> connectedClients[d]]
    /\ socketEvents' = socketEvents + 1
    /\ disconnects' = [disconnects EXCEPT ![c] = @ + 1]
    /\ UNCHANGED <<clockVars, appVars, storeVars, cronVars, sockets, rooms, emitted,
                   httpVars, predictions>>

\* -------------------------------------------------------- HTTP handlers
\* what the response holds of one category: the array the collect resolved
\* with (its length, generated or not); `failed` records for the reader what
\* happened on the way, `error` whether the response says so: a collect tells
\* of an error only by rejecting
Summary(o) ==
    [n |-> o.n, simulated |-> o.simulated, failed |-> o.failed,
     error |-> o.rejected]

\* POST /api/data-sources/collect with one source: the collect runs, its batch
\* is the response; a rejection is answered 500.  No evaluateAlerts follows.
CollectOne(source) ==
    /\ \E o \in Collect(source) :
          /\ Len(sensorData) + Len(o.saved) <= MaxReadings
          /\ sensorData' = sensorData \o Stamp(o.saved, now)
          /\ response' =
                IF o.rejected
                THEN [route |-> "collect", status |-> 500]
                ELSE [route |-> "collect", status |-> 200,
                      results |-> [c \in {source} |-> Summary(o)]]
    /\ requests' = requests + 1
    /\ UNCHANGED <<clockVars, appVars, alerts, cronVars, socketVars, emitted, predictions>>

\* POST /api/data-sources/collect with any other source: Promise.all over the
\* three collects; all three run, one rejection rejects the whole
CollectAll ==
    /\ \E w \in CollectWeatherData, e \in CollectEarthquakeData,
          f \in CollectFloodData :
          /\ Len(sensorData) + Len(w.saved) + Len(e.saved) + Len(f.saved)
                <= MaxReadings
          /\ sensorData' =
                sensorData \o Stamp(w.saved \o e.saved \o f.saved, now)
          /\ response' =
                IF w.rejected \/ e.rejected \/ f.rejected
                THEN [route |-> "collect", status |-> 500]
                ELSE [route |-> "collect", status |-> 200,
                      results |-> [c \in Categories |->
                                     CASE c = "weather" -> Summary(w)
                                       [] c = "earthquake" -> Summary(e)
                                       [] c = "flood" -> Summary(f)]]
    /\ requests' = requests + 1
    /\ UNCHANGED <<clockVars, appVars, alerts, cronVars, socketVars, emitted, predictions>>

\* the bodies PATCH /api/alerts/:id is sent: "" stands for a key left out
PatchBodies ==
    {[status |-> s, severity |-> ""] : s \in Statuses}
        \cup {[status |-> "", severity |-> v] : v \in {"low", "critical"}}

\* PATCH /api/alerts/:id: the allowed keys present in the body are $set,
\* resolvedAt with status resolved; the update is broadcast to every socket
Patch(id, body) ==
    /\ IF id \in 1..Len(alerts)
       THEN \/ /\ alerts' = [alerts EXCEPT ![id] =
                     [@ EXCEPT !.status = IF body.status # "" THEN body.status ELSE @,
                               !.severity = IF body.severity # "" THEN body.severity ELSE @,
                               !.resolvedAt = IF body.status = "resolved" THEN now ELSE @]]
               /\ emitted' = Append(emitted,
                     [event |-> "alert-updated", id |-> id, to |-> sockets])
               /\ response' = [route |-> "patch", status |-> 200]
            \/ /\ response' = [route |-> "patch", status |-> 400]
               /\ UNCHANGED <<alerts, emitted>>
       ELSE /\ response' = [route |-> "patch", status |-> 404]
            /\ UNCHANGED <<alerts, emitted>>
    /\ requests' = requests + 1
    /\ UNCHANGED <<clockVars, appVars, sensorData, cronVars, socketVars, predictions>>

\* the bodies POST /api/alerts is sent: the severity is the sender's word, the
\* data whatever the sender measured; the last one lacks location.name
CreateBodies ==
    { [type |-> "earthquake", severity |-> "low", location |-> Nepal,
       data |-> [NoReadings EXCEPT !.magnitude = 72], recommendations |-> <<>>],
      [type |-> "flood", severity |-> "high", location |-> Ganges,
       data |-> [NoReadings EXCEPT !.waterLevel = 8],
       recommendations |-> GetFloodRecommendations("high")],
      [type |-> "flood", severity |-> "high", location |-> Unnamed,
       data |-> [NoReadings EXCEPT !.waterLevel = 8], recommendations |-> <<>>] }

\* new Alert({...req.body, source: 'manual'}) as save() stores it: no tick
\* and no reading stand behind it, and it has no expiresAt
ManualAlert(body, t) ==
    [type |-> body.type, severity |-> body.severity, status |-> "active",
     location |-> body.location, data |-> body.data, source |-> "manual",
     recommendations |-> body.recommendations,
     createdAt |-> t, expiresAt |-> 0, resolvedAt |-> 0, tick |-> 0, reading |-> 0]

\* POST /api/alerts: the body is saved as it comes and broadcast to every
\* socket; a validation or store failure is answered 400
Create(body) ==
    /\ \/ /\ Valid(body)
          /\ alerts' = Append(alerts, ManualAlert(body, now))
          /\ emitted' = Append(emitted,
                [event |-> "new-alert", id |-> Len(alerts) + 1, to |-> sockets])
          /\ response' = [route |-> "create", status |-> 201]
       \/ /\ response' = [route |-> "create", status |-> 400]
          /\ UNCHANGED <<alerts, emitted>>
    /\ requests' = requests + 1
    /\ UNCHANGED <<clockVars, appVars, sensorData, cronVars, socketVars, predictions>>

\* --------------------------------------------------------- client App
\* .limit(20) of GET /api/alerts/recent, and prev.slice(0, 49) of the push
RecentLimit == 20
PushKeep == 49

\* the socket of the one App this model follows
App == "c1"

\* getDemoAlerts(): six alerts, here under the ids -1 to -6
DemoAlerts == [n \in 1..6 |-> 0 - n]

\* Alert.find().sort({createdAt: -1}).limit(20): the store is in insertion
\* order with createdAt never decreasing, so the newest are the last; of
\* alerts with one createdAt the later inserted is taken first
RecentAlerts ==
    [n \in 1..(IF Len(alerts) < RecentLimit THEN Len(alerts) ELSE RecentLimit) |->
        Len(alerts) + 1 - n]

\* GET /api/alerts/recent: the newest alerts, the demo alerts when the store
\* is empty or cannot be read
RecentResponses ==
    {IF Len(alerts) = 0 THEN DemoAlerts ELSE RecentAlerts, DemoAlerts}

\* variant: the push keeps the whole previous list
PushedUnbounded(alert, prev) == <<alert>> \o prev

\* setAlerts((prev) => [alert, ...prev.slice(0, 49)])
Pushed(alert, prev) ==
    <<alert>> \o SubSeq(prev, 1, IF Len(prev) < PushKeep THEN Len(prev) ELSE PushKeep)

\* the next io.emit reaches the App: the callback of subscribeToAlerts runs
\* for a new-alert sent while the App's socket was connected
OnNewAlert ==
    /\ delivered < Len(emitted)
    /\ LET e == emitted[delivered + 1] IN
       appAlerts' = IF e.event = "new-alert" /\ App \in e.to
                    THEN Pushed(e.id, appAlerts)
                    ELSE appAlerts
    /\ delivered' = delivered + 1
    /\ UNCHANGED <<clockVars, storeVars, cronVars, socketVars, emitted, httpVars,
                   predictions>>

\* fetchAlerts, on mount and every two minutes: the list is replaced by the
\* response of GET /api/alerts/recent; a request that fails leaves it alone
FetchAlerts ==
    /\ \/ \E list \in RecentResponses : appAlerts' = list
       \/ UNCHANGED appAlerts
    /\ UNCHANGED <<clockVars, storeVars, cronVars, socketVars, emitted, httpVars,
                   predictions, delivered>>

\* ------------------------------------------------- routes/predictions.js
\* Math.random(), probabilities and confidences: thousandths
Randoms == {0, 400, 800, 999}

\* the request bodies of POST /api/predictions/analyze
AnalyzeBodies ==
    {[disasterType |-> t, location |-> Nepal] : t \in {"earthquake", "landslide"}}

\* response.data of the ML service's /predict
MlAnswers ==
    { [probability |-> 870, confidence |-> 910, severity |-> "critical",
       model_used |-> "xgboost"],
      [probability |-> 1200, confidence |-> 910, severity |-> "critical",
       model_used |-> "xgboost"],
      [probability |-> 300, confidence |-> 500, severity |-> "low",
       model_used |-> ""] }

\* predictionSchema: the validators save() runs
PredictionValid(doc) ==
    /\ doc.disasterType \in {"earthquake", "flood", "cyclone", "tsunami", "wildfire",
                              "extreme_weather", "heatwave", "storm"}
    /\ doc.probability \in 0..1000
    /\ doc.confidence \in 0..1000
    /\ doc.severity \in Severities
    /\ doc.modelUsed # ""

\* new Prediction({...}) from the ML service's answer
MlPrediction(body, d) ==
    [disasterType |-> body.disasterType, location |-> body.location,
     probability |-> d.probability, confidence |-> d.confidence,
     severity |-> d.severity, modelUsed |-> d.model_used]

\* generateFallbackPrediction: the first threshold of severityMap, taken from
\* the highest down, that baseProbability reaches
FallbackSeverity(baseProbability) ==
    IF baseProbability >= 800 THEN "critical"
    ELSE IF baseProbability >= 600 THEN "high"
    ELSE IF baseProbability >= 400 THEN "medium"
    ELSE "low"

\* generateFallbackPrediction with the two Math.random() values it draws for
\* the probability and the confidence (predictedTime is left out)
GenerateFallbackPrediction(type, location, r1, r2) ==
    LET baseProbability == (r1 * 500) \div 1000 + 200 IN
    [disasterType |-> type, location |-> location,
     probability |-> baseProbability,
     confidence |-> 600 + (r2 * 200) \div 1000,
     severity |-> FallbackSeverity(baseProbability),
     modelUsed |-> "rule-based-fallback"]

\* variant: the failure of the inner try answered as an error
FallbackSurfaced(body, oracle, r1, r2) ==
    [route |-> "analyze", status |-> 500, oracle |-> oracle]

\* the answer after the catch of the inner try; `oracle` records for the
\* reader what the ML service did
Fallback(body, oracle, r1, r2) ==
    [route |-> "analyze", status |-> 200, oracle |-> oracle,
     prediction |-> GenerateFallbackPrediction(body.disasterType, body.location,
                                               r1, r2),
     mlServiceUsed |-> FALSE]

\* POST /api/predictions/analyze: the ML service is asked (30 s timeout); its
\* answer is stored and returned; whatever the inner try throws, the request
\* or prediction.save(), is logged as "ML service unavailable" and answered
\* with the rule-based prediction
Analyze(body) ==
    /\ \E oracle \in {"answered", "unreachable", "timeout"}, d \in MlAnswers,
          stored \in BOOLEAN, r1 \in Randoms, r2 \in Randoms :
          IF oracle = "answered" /\ PredictionValid(MlPrediction(body, d)) /\ stored
          THEN /\ predictions' = Append(predictions, MlPrediction(body, d))
               /\ response' = [route |-> "analyze", status |-> 200,
                               oracle |-> oracle,
                               prediction |-> MlPrediction(body, d),
                               mlServiceUsed |-> TRUE]
          ELSE /\ response' = Fallback(body, oracle, r1, r2)
               /\ UNCHANGED predictions
    /\ requests' = requests + 1
    /\ UNCHANGED <<clockVars, appVars, storeVars, cronVars, socketVars, emitted>>

\* ------------------------------------------------------- specifications
Cron(p) == ReadRecent(p) \/ Lookup(p) \/ Save(p)

AllIdle == \A p \in Categories : run[p].pc = "idle"

\* every action of the server
Next ==
    \/ Advance(ClockJumps)
    \/ InsertSensorData
    \/ SaveSensorData(TierPayloads \cup DelhiPayloads \cup HeatPayloads, MaxReadings)
    \/ \E p \in Categories : CronTick(p) \/ Cron(p) \/ Hang(p)
    \/ \E c \in Clients : Connect(c) \/ Disconnect(c) \/ DisconnectAgain(c)
    \/ \E c \in Clients, types \in SubscriptionLists : Subscribe(c, types)
    \/ \E source \in Categories : CollectOne(source)
    \/ CollectAll
    \/ \E id \in 0..Len(alerts), body \in PatchBodies : Patch(id, body)
    \/ \E body \in CreateBodies : Create(body)
    \/ \E body \in AnalyzeBodies : Analyze(body)
    \/ OnNewAlert
    \/ FetchAlerts

Spec == Init /\ [][Next]_vars

\* the ingestion pipeline: cron callbacks that overlap, at one clock reading
NextIngest ==
    \/ InsertSensorData
    \/ \E p \in Categories : ticks < MaxTicks /\ CronTick(p)
    \/ \E p \in Categories : Cron(p)

SpecIngest == Init /\ [][NextIngest]_vars

\* the ingestion pipeline, one cron callback at a time, over the lookback
\* windows, with an operator changing alert statuses in between
NextSerial ==
    \/ clockSteps < MaxClockSteps /\ Advance(ClockJumps)
    \/ InsertSensorData
    \/ \E p \in Categories : ticks < MaxSerialTicks /\ AllIdle /\ CronTick(p)
    \/ \E p \in Categories : Cron(p)
    \/ \E id \in 1..Len(alerts) :
          requests < 1 /\ AllIdle /\ Patch(id, [status |-> "resolved", severity |-> ""])

SpecSerial == Init /\ [][NextSerial]_vars

\* sockets come, subscribe and go around the evaluation of one tick
NextFanout ==
    \/ \E c \in Clients : socketEvents < MaxSocketEvents /\ Connect(c)
    \/ \E c \in Clients, types \in SubscriptionLists :
          socketEvents < MaxSocketEvents /\ Subscribe(c, types)
    \/ \E c \in Clients : socketEvents < MaxSocketEvents /\ Disconnect(c)
    \/ \E p \in Categories : ticks < MaxFanoutTicks /\ CronTick(p)
    \/ \E p \in Categories : Cron(p)

SpecFanout == Init /\ [][NextFanout]_vars

\* the alerts of one tick are updated through PATCH /api/alerts/:id
NextStatus ==
    \/ \E p \in Categories : ticks < MaxStatusTicks /\ CronTick(p)
    \/ \E p \in Categories : Cron(p)
    \/ \E id \in 0..Len(alerts), body \in PatchBodies :
          requests < MaxRequests /\ Patch(id, body)

SpecStatus == Init /\ [][NextStatus]_vars

\* scheduled and manual collection side by side
NextCollect ==
    \/ \E p \in Categories : ticks < MaxCollectTicks /\ CronTick(p)
    \/ \E p \in Categories : Cron(p)
    \/ \E source \in Categories : requests < MaxCollectRequests /\ CollectOne(source)
    \/ requests < MaxCollectRequests /\ CollectAll

SpecCollect == Init /\ [][NextCollect]_vars

\* one tick whose source may never answer; the store answers every
\* operation of a run in the end
NextHang ==
    \/ InsertSensorData
    \/ \E p \in Categories : ticks < MaxHangTicks /\ CronTick(p)
    \/ \E p \in Categories : ticks < MaxHangTicks /\ Hang(p)
    \/ \E p \in Categories : Cron(p)

SpecHang ==
    Init /\ [][NextHang]_vars /\ \A p \in Categories : WF_vars(Cron(p))

\* one reading at a boundary of the tables is stored and a tick evaluates it
NextClassify ==
    \/ SaveSensorData(TierPayloads, MaxClassifyReadings)
    \/ \E p \in Categories : ticks < MaxClassifyTicks /\ CronTick(p)
    \/ \E p \in Categories : Cron(p)

SpecClassify == Init /\ [][NextClassify]_vars

\* analyze requests alone
NextAnalyze ==
    \E body \in AnalyzeBodies : requests < MaxAnalyzeRequests /\ Analyze(body)

SpecAnalyze == Init /\ [][NextAnalyze]_vars

\* the App connects, flood alerts are created one request after the other
\* and pushed to it, and it refreshes its list at any moment
NextClient ==
    \/ socketEvents < 1 /\ Connect(App)
    \/ \E body \in CreateBodies :
          /\ body.type = "flood"
          /\ App \in sockets
          /\ Len(alerts) < MaxAppAlerts
          /\ requests < Len(alerts) + MaxRejected
          /\ Len(emitted) - delivered < MaxInFlight
          /\ Create(body)
    \/ OnNewAlert
    \/ FetchAlerts

SpecClient == Init /\ [][NextClient]_vars

\* alerts come from one tick and from POST /api/alerts and are updated
\* through PATCH /api/alerts/:id
NextManual ==
    \/ SaveSensorData(HeatPayloads, MaxClassifyReadings)
    \/ \E p \in Categories : ticks < MaxStatusTicks /\ CronTick(p)
    \/ \E p \in Categories : Cron(p)
    \/ \E body \in CreateBodies : requests < MaxRequests /\ Create(body)
    \/ \E id \in 0..Len(alerts), body \in PatchBodies :
          requests < MaxRequests /\ Patch(id, body)

SpecManual == Init /\ [][NextManual]_vars

\* one reading of any tier of any hazard type is stored and a tick evaluates it
NextRecommend ==
    \/ SaveSensorData(TierPayloads \cup HeatPayloads, MaxClassifyReadings)
    \/ \E p \in Categories : ticks < MaxClassifyTicks /\ CronTick(p)
    \/ \E p \in Categories : Cron(p)

SpecRecommend == Init /\ [][NextRecommend]_vars

\* the seeded and the collected weather of one city are stored and evaluated,
\* one run at a time
NextBox ==
    \/ SaveSensorData(DelhiPayloads, MaxBoxReadings)
    \/ \E p \in Categories : ticks < MaxBoxTicks /\ AllIdle /\ CronTick(p)
    \/ \E p \in Categories : Cron(p)

SpecBox == Init /\ [][NextBox]_vars

\* sockets come, subscribe and go, a closed socket's disconnect handler may
\* run again, and one tick broadcasts what it raises
NextSocket ==
    \/ \E c \in Clients : socketEvents < MaxSocketLife /\ Connect(c)
    \/ \E c \in Clients, types \in SubscriptionLists :
          socketEvents < MaxSocketLife /\ Subscribe(c, types)
    \/ \E c \in Clients : socketEvents < MaxSocketLife /\ Disconnect(c)
    \/ \E c \in Clients : socketEvents < MaxSocketLife /\ DisconnectAgain(c)
    \/ \E p \in Categories : ticks < MaxFanoutTicks /\ CronTick(p)
    \/ \E p \in Categories : Cron(p)

SpecSocket == Init /\ [][NextSocket]_vars

\* ---------------------------------------------------------------- claims
\* the lookback windows as the specification states them, minutes
StatedWindow(type) ==
    CASE type = "earthquake" -> 60
      [] type = "storm" -> 120
      [] type = "cyclone" -> 120
      [] type = "flood" -> 180
      [] type = "heatwave" -> 360

\* two alerts raised for one event: the same hazard type at the same
\* location, the later created inside the window of the earlier
Duplicates(j, k) ==
    /\ j < k
    /\ alerts[j].type = alerts[k].type
    /\ alerts[j].location = alerts[k].location
    /\ alerts[k].createdAt <= alerts[j].createdAt + StatedWindow(alerts[j].type)

\* C1: cron callbacks that overlap never both accept an alert for the same
\* event: no two alerts of one hazard type and location are persisted within
\* the lookback window of each other while the first is still active.
C1_AtMostOneAlertPerEvent ==
    \A j, k \in 1..Len(alerts) :
        ~(Duplicates(j, k) /\ alerts[j].status = "active")

Current(p) == sensorData[run[p].data[run[p].i]]
CurrentType(p) == CandidateType(Current(p), run[p].phase)

\* an active alert of the candidate's type at the candidate's location
Earlier(p, k) ==
    /\ alerts[k].type = CurrentType(p)
    /\ alerts[k].status = "active"
    /\ alerts[k].location = Current(p).location

\* an active alert of the candidate's type near the candidate: the same
\* location name, or inside the same half-degree box
Near(p, k) ==
    /\ alerts[k].type = CurrentType(p)
    /\ alerts[k].status = "active"
    /\ \/ alerts[k].location.name = Current(p).location.name
       \/ /\ alerts[k].location.latitude - Current(p).location.latitude \in -5..5
          /\ alerts[k].location.longitude - Current(p).location.longitude \in -5..5

\* C3: a lookup that finds an active alert of the same type and location
\* younger than the stated window suppresses the candidate; one that finds
\* every such alert older than the window accepts it, and the save that
\* follows persists it unless the store rejects the write.
C3_WindowDecidesAdmission ==
    [][\A p \in Categories :
          /\ (/\ run[p].pc = "lookup"
              /\ run'[p] # run[p]
              /\ \E k \in 1..Len(alerts) :
                    /\ Earlier(p, k)
                    /\ now - alerts[k].createdAt < StatedWindow(CurrentType(p)))
             => run'[p].pc # "save"
          /\ (/\ run[p].pc = "lookup"
              /\ run'[p] # run[p]
              /\ \A k \in 1..Len(alerts) :
                    Near(p, k) =>
                       now - alerts[k].createdAt > StatedWindow(CurrentType(p)))
             => \/ /\ run'[p].pc = "save"
                   /\ run'[p].alert.type = CurrentType(p)
                \/ run'[p].last = "caught" /\ run'[p].pc = "idle"
          /\ (run[p].pc = "save" /\ run'[p] # run[p])
             => \/ /\ Len(alerts') = Len(alerts) + 1
                   /\ alerts'[Len(alerts')].type = run[p].alert.type
                   /\ alerts'[Len(alerts')].createdAt = now
                   /\ alerts'[Len(alerts')].status = "active"
                \/ run'[p].last = "caught" /\ run'[p].pc = "idle"
      ]_vars

\* C3 witness: for each of two hazard types, an alert persisted after the
\* window of an earlier, still active alert of the same type and location.
C3_Witness ==
    \A type \in {"cyclone", "heatwave"} :
        \E j, k \in 1..Len(alerts) :
            /\ alerts[j].type = type /\ alerts[k].type = type
            /\ alerts[j].location = alerts[k].location
            /\ alerts[j].status = "active"
            /\ alerts[k].createdAt > alerts[j].createdAt + StatedWindow(type)

\* the evaluateAlerts run of a tick is still under way
Running(tick) == \E p \in Categories : run[p].pc # "idle" /\ run[p].tick = tick

\* the new-alert broadcasts of one alert
NewAlertEmits(k) ==
    {n \in 1..Len(emitted) : emitted[n].event = "new-alert" /\ emitted[n].id = k}

\* C5: every alert an evaluation persisted is broadcast as new-alert exactly
\* once, after its save: never before it is stored, never twice, and once the
\* run that stored it has ended the broadcast has been made.
C5_PersistedAlertsBroadcastOnce ==
    /\ \A n \in 1..Len(emitted) : emitted[n].id \in 1..Len(alerts)
    /\ \A k \in 1..Len(alerts) :
          /\ Cardinality(NewAlertEmits(k)) <= 1
          /\ ~Running(alerts[k].tick) => Cardinality(NewAlertEmits(k)) = 1

\* C6: the evaluation of one reading persists at most one alert: no two
\* stored alerts stem from the same reading in the same run.
C6_OneAlertPerReading ==
    \A j, k \in 1..Len(alerts) :
        (alerts[j].tick = alerts[k].tick /\ alerts[j].reading = alerts[k].reading)
            => j = k

\* a reading after position i of the run's batch has a value over a threshold
LaterCandidate(p) ==
    \E n \in (run[p].i + 1)..Len(run[p].data) :
        \E phase \in 1..NumPhases(sensorData[run[p].data[n]]) :
            CandidateSeverity(sensorData[run[p].data[n]], phase) # "none"

\* C10: whatever happens to the reading being evaluated, the run goes on to
\* the remaining readings of its batch: it never ends while a later reading
\* with a value over a threshold has not been looked up.
C10_FailureKeepsBatchGoing ==
    [][\A p \in Categories :
          (/\ run[p].pc \in {"lookup", "save"}
           /\ LaterCandidate(p)
           /\ run'[p] # run[p])
          => run'[p].pc # "idle"
      ]_vars

\* the connected clients whose recorded subscription list admits a hazard type
Subscribers(type) ==
    {c \in DOMAIN connectedClients :
        connectedClients[c] = {} \/ type \in connectedClients[c]}

\* C4: a new-alert push reaches all and only the connected clients whose
\* subscription list is empty or holds the alert's hazard type.
C4_FanoutMatchesSubscriptions ==
    [][\A n \in (Len(emitted) + 1)..Len(emitted') :
          emitted'[n].event = "new-alert"
              => emitted'[n].to = Subscribers(alerts'[emitted'[n].id].type)
      ]_vars

\* the order of the alert statuses
Rank(status) ==
    CASE status = "active" -> 1
      [] status = "monitoring" -> 2
      [] status \in {"resolved", "expired"} -> 3

\* C7: no update moves the status of an alert back: active comes before
\* monitoring, monitoring before resolved and expired.
C7_StatusNeverMovesBack ==
    [][\A k \in 1..Len(alerts) :
          Rank(alerts'[k].status) >= Rank(alerts[k].status)
      ]_vars

\* the live readings a collect response reports for a category
Live(results, c) ==
    IF c \in DOMAIN results /\ ~results[c].simulated THEN results[c].n ELSE 0

\* C8: a category whose collect failed leaves the other categories alone: their
\* scheduled ticks can still fire, and a manual collect is answered 200 with
\* the batch of every category asked for, the live readings it reports stored.
C8_CollectFailureIsolated ==
    /\ [](\A p, q \in Categories :
            (run[p].failed /\ q # p /\ run[q].pc = "idle") => ENABLED CronTick(q))
    /\ [][(requests' # requests /\ response'.route = "collect")
            => /\ response'.status = 200
               /\ \/ DOMAIN response'.results = Categories
                  \/ \E c \in Categories : DOMAIN response'.results = {c}
               /\ Len(sensorData') - Len(sensorData) >=
                     Live(response'.results, "weather")
                       + Live(response'.results, "earthquake")
                       + Live(response'.results, "flood")
         ]_vars

\* C8 witness: the weather tick found no location reachable and the earthquake
\* tick after it stored its reading; a collect-all whose weather batch came
\* back empty returned the earthquake and flood batches.
C8_Witness ==
    /\ run["weather"].failed /\ run["weather"].pc # "idle"
    /\ run["earthquake"].pc # "idle"
    /\ run["earthquake"].tick > run["weather"].tick
    /\ \E k \in 1..Len(sensorData) : sensorData[k].type = "earthquake"
    /\ response # None
    /\ response.route = "collect" /\ response.status = 200
    /\ DOMAIN response.results = Categories
    /\ response.results["weather"].failed /\ response.results["weather"].n = 0
    /\ ~response.results["earthquake"].simulated
    /\ response.results["earthquake"].n = 1
    /\ response.results["flood"].n = 5

\* C9: a tick that failed is caught: no callback is left dead, the schedule of
\* an idle category can always fire, and the tick after a caught failure
\* collects and enters the evaluation.
C9_FailedTickCaughtTimerKept ==
    /\ [](\A p \in Categories :
            /\ run[p].pc \in {"idle", "read", "lookup", "save"}
            /\ run[p].pc = "idle" => ENABLED CronTick(p))
    /\ [][\A p \in Categories :
            (run[p].pc = "idle" /\ run[p].last = "caught" /\ run'[p] # run[p])
               => /\ run'[p].pc = "read"
                  /\ ticks' = ticks + 1
                  /\ run'[p].tick = ticks'
         ]_vars

\* C9 witness: the tick after a caught failure is looking up a reading.
C9_Witness ==
    \E p \in Categories :
        /\ run[p].last = "caught"
        /\ run[p].pc = "lookup"
        /\ run[p].tick = 2

\* C11: a store failure inside a scheduled tick reaches the cron callback as
\* an error: a save of a well-formed alert that stores nothing ends the tick
\* in the callback's catch, not with a normal return of evaluateAlerts.
C11_StoreFailureReachesCaller ==
    [][\A p \in Categories :
          (/\ run[p].pc = "save"
           /\ Valid(run[p].alert)
           /\ run'[p] # run[p]
           /\ alerts' = alerts)
          => run'[p].pc = "idle" /\ run'[p].last = "failed"
      ]_vars

\* C12: an unreachable source is made up for by generated readings: no
\* category of a collect response whose source failed comes back empty.
C12_FallbackNeverEmpty ==
    (response # None /\ response.route = "collect")
        => /\ response.status = 200
           /\ \A c \in DOMAIN response.results :
                 response.results[c].failed => response.results[c].n > 0

\* C13: no scheduled tick is stalled for ever by a source that never answers:
\* every cron callback that has started comes to its end.
C13_EveryTickCompletes ==
    \A p \in Categories : (run[p].pc # "idle") ~> (run[p].pc = "idle")

\* C14: the answer to a collect-all is a summary per category: it is sent
\* whatever failed, and a category whose collection failed is reported with
\* its error beside the results of the others.
C14_PerCategorySummary ==
    (response # None /\ response.route = "collect")
        => /\ response.status = 200
           /\ DOMAIN response.results = Categories
                 => \A c \in Categories :
                       response.results[c].failed => response.results[c].error

\* the readings a step has added to the store
Added == (Len(sensorData) + 1)..Len(sensorData')

\* a stored reading has a value over a threshold and no alert suppresses it
Raises(r) ==
    \E phase \in 1..NumPhases(r) :
        /\ CandidateSeverity(r, phase) # "none"
        /\ ~FindOne(CandidateType(r, phase), r.location, now)

\* C15: a manual collect runs the whole pipeline in the same operation: when
\* it stores a reading that calls for an alert, the alert is persisted by the
\* time the request is answered.
C15_ManualTriggerEvaluates ==
    [][(/\ requests' # requests
        /\ response'.route = "collect"
        /\ \E k \in Added : Raises(sensorData'[k]))
       => Len(alerts') > Len(alerts)
      ]_vars

\* C16: every reading the collect of a tick returned is among those the
\* evaluateAlerts of the tick reads: when the find is about to run, the store
\* holds at least as many recent readings of the category as were returned.
C16_CollectedReadingsEvaluated ==
    \A p \in Categories :
        run[p].pc = "read" =>
            Cardinality({k \in Recent(now) : sensorData[k].type = p})
                >= run[p].returned

\* the tiers in rising order, and the tables of their boundaries
TierNames == <<"low", "medium", "high", "critical">>
EarthquakeTable == <<EqLow, EqMedium, EqHigh, EqCritical>>
WindTable == <<WindLow, WindMedium, WindHigh, WindCritical>>
WaterTable == <<WaterLow, WaterMedium, WaterHigh, WaterCritical>>
RainTable == <<RainLow, RainMedium, RainHigh, RainCritical>>

\* the number of the highest tier whose boundary is at or under the value,
\* 0 when the value is under every boundary
TierReached(value, table) ==
    LET reached == {n \in 1..4 : table[n] <= value} IN
    IF reached = {} THEN 0
    ELSE CHOOSE n \in reached : \A m \in reached : m <= n

TierNumber(severity) == CHOOSE n \in 1..4 : TierNames[n] = severity

\* the measurement that selects the tier of an alert, and its table
Measured(a) ==
    CASE a.type = "earthquake" -> a.data.magnitude
      [] a.type \in {"storm", "cyclone"} -> a.data.windSpeed
      [] a.type = "flood" -> a.data.waterLevel

TableOf(a) ==
    CASE a.type = "earthquake" -> EarthquakeTable
      [] a.type \in {"storm", "cyclone"} -> WindTable
      [] a.type = "flood" -> WaterTable

Tiered == {"earthquake", "storm", "cyclone", "flood"}

\* C17: boundaries are inclusive: every earthquake, wind and flood alert has
\* the highest tier whose boundary is at or under its magnitude, wind speed or
\* water level (magnitude 6.2 gives high), and a run that ends without any
\* lookup had only readings under the lowest boundaries.
C17_TierBoundariesInclusive ==
    /\ [](\A k \in 1..Len(alerts) :
            alerts[k].type \in Tiered =>
               /\ TierReached(Measured(alerts[k]), TableOf(alerts[k])) > 0
               /\ alerts[k].severity =
                     TierNames[TierReached(Measured(alerts[k]), TableOf(alerts[k]))]
               /\ (alerts[k].type = "earthquake" /\ alerts[k].data.magnitude = 62)
                     => alerts[k].severity = "high")
    /\ [][\A p \in Categories :
            (run[p].pc = "read" /\ run'[p].pc = "idle" /\ run'[p].last = "returned")
               => \A k \in Recent(now) :
                     /\ sensorData[k].type = "earthquake"
                           => TierReached(sensorData[k].readings.magnitude,
                                          EarthquakeTable) = 0
                     /\ sensorData[k].type = "weather"
                           => TierReached(sensorData[k].readings.windSpeed,
                                          WindTable) = 0
                     /\ sensorData[k].type = "flood"
                           => TierReached(sensorData[k].readings.waterLevel,
                                          WaterTable) = 0
         ]_vars

\* C17 witness: an alert whose measurement lies exactly on the boundary of
\* the high tier, stored with severity high.
C17_Witness ==
    \E k \in 1..Len(alerts) :
        /\ alerts[k].type = "earthquake"
        /\ alerts[k].data.magnitude = EqHigh
        /\ alerts[k].severity = "high"

\* the larger of two tier numbers
Higher(m, n) == IF m >= n THEN m ELSE n

\* C18: the severity of an alert is the highest tier any relevant measurement
\* reaches: wind speed and rainfall for a storm or cyclone alert, water level
\* and rainfall for a flood alert; and a run ends without a lookup only when
\* every relevant measurement of its readings is under its lowest boundary.
C18_HighestTierAcrossMeasurements ==
    /\ [](\A k \in 1..Len(alerts) :
            alerts[k].type \in {"storm", "cyclone", "flood"} =>
               TierNumber(alerts[k].severity) =
                  Higher(TierReached(Measured(alerts[k]), TableOf(alerts[k])),
                         TierReached(alerts[k].data.rainfall, RainTable)))
    /\ [][\A p \in Categories :
            (run[p].pc = "read" /\ run'[p].pc = "idle" /\ run'[p].last = "returned")
               => \A k \in Recent(now) :
                     sensorData[k].type \in {"weather", "flood"}
                        => TierReached(sensorData[k].readings.rainfall, RainTable) = 0
         ]_vars

\* C19: the wind speed selects the hazard type: the alert that a wind lookup
\* leads to, and every stored wind alert, is a storm from the low boundary up
\* to the high boundary and a cyclone from there on; 140 km/h gives a cyclone
\* of severity high.
C19_WindSelectsHazardType ==
    /\ [](\A k \in 1..Len(alerts) :
            alerts[k].type \in {"storm", "cyclone"} =>
               /\ alerts[k].data.windSpeed >= 40
               /\ alerts[k].type = "storm" <=> alerts[k].data.windSpeed < 100
               /\ alerts[k].data.windSpeed = 140
                     => alerts[k].type = "cyclone" /\ alerts[k].severity = "high")
    /\ [][\A p \in Categories :
            (/\ run[p].pc = "lookup" /\ run[p].phase = 1
             /\ Current(p).type = "weather"
             /\ run'[p].pc = "save")
               => /\ Current(p).readings.windSpeed >= 40
                  /\ run'[p].alert.type =
                        IF Current(p).readings.windSpeed >= 100
                        THEN "cyclone" ELSE "storm"
         ]_vars

\* C19 witness: the reading with 140 km/h has raised a cyclone alert of
\* severity high.
C19_Witness ==
    \E k \in 1..Len(alerts) :
        /\ alerts[k].type = "cyclone"
        /\ alerts[k].data.windSpeed = 140
        /\ alerts[k].severity = "high"

\* C20: a failure of the prediction oracle never reaches the caller: when the
\* ML service is unreachable or times out the analyze answer is a success
\* carrying a prediction with probability and confidence between 0 and 1, a
\* severity tier and a model id.
C20_OracleFailureAbsorbed ==
    (response # None /\ response.route = "analyze"
       /\ response.oracle \in {"unreachable", "timeout"})
        => /\ response.status = 200
           /\ response.prediction.probability \in 0..1000
           /\ response.prediction.confidence \in 0..1000
           /\ response.prediction.severity \in Severities
           /\ response.prediction.modelUsed # ""

\* C20 witness: the ML service timed out and the answer carries a rule-based
\* prediction of severity high.
C20_Witness ==
    /\ response # None
    /\ response.route = "analyze"
    /\ response.oracle = "timeout"
    /\ response.status = 200
    /\ ~response.mlServiceUsed
    /\ response.prediction.severity = "high"
    /\ response.prediction.modelUsed = "rule-based-fallback"

\* the io.emit calls of one step
Emits == (Len(emitted) + 1)..Len(emitted')

\* C21: after a connection's disconnect event its registration is gone; a
\* repeated disconnect for the same connection changes nothing and is always
\* handled; a broadcast issued after the removal delivers nothing to that
\* connection.
C21_DisconnectRemovesIdempotently ==
    /\ [](\A c \in Clients :
            (c \notin sockets /\ disconnects[c] > 0) => ENABLED DisconnectAgain(c))
    /\ [][\A c \in Clients :
            /\ (Disconnect(c) \/ DisconnectAgain(c))
                  => /\ c \notin DOMAIN connectedClients'
                     /\ c \notin sockets'
                     /\ rooms'[c] = {}
            /\ DisconnectAgain(c)
                  => UNCHANGED <<sockets, connectedClients, rooms, emitted,
                                 storeVars, cronVars>>
            /\ (c \notin sockets /\ disconnects[c] > 0)
                  => \A n \in Emits :
                        c \notin emitted'[n].to /\ emitted'[n].to = sockets
         ]_vars

\* a connection whose disconnect was handled twice, and a broadcast that the
\* other connection received and the closed one did not
C21_Witness ==
    \E c \in Clients :
        /\ disconnects[c] >= 2
        /\ c \notin sockets
        /\ c \notin DOMAIN connectedClients
        /\ Len(emitted) > 0
        /\ emitted[Len(emitted)].to = Clients \ {c}

\* two readings of one event, the first collected before the second
CollectedBefore(j, k) ==
    /\ sensorData[j].type = sensorData[k].type
    /\ sensorData[j].location = sensorData[k].location
    /\ NumPhases(sensorData[j]) > 0
    /\ NumPhases(sensorData[k]) > 0
    /\ sensorData[j].createdAt < sensorData[k].createdAt

\* C22: within one evaluation run the readings are evaluated in the order
\* they were collected: when a reading raises an alert, every reading of the
\* same event in the run that was collected before it has been evaluated
\* before it.
C22_EvaluatedInCollectionOrder ==
    [][\A p \in Categories :
          (run[p].pc = "save" /\ Len(alerts') = Len(alerts) + 1)
              => \A b \in 1..Len(run[p].data) :
                    CollectedBefore(run[p].data[b], run[p].data[run[p].i])
                        => b < run[p].i
      ]_vars

\* two locations no more than 0.5 degrees apart in latitude and in longitude
WithinBox(l, m) ==
    /\ l.latitude - m.latitude \in -BoxTenths..BoxTenths
    /\ l.longitude - m.longitude \in -BoxTenths..BoxTenths

\* C23: for every hazard type a candidate inside the 0.5 degree box of an
\* active alert of its type created inside the lookback window is suppressed,
\* whatever the location names are: evaluation runs that do not overlap never
\* store such a pair of alerts.
C23_BoxDedupEveryType ==
    \A j, k \in 1..Len(alerts) :
        ~(/\ j < k
          /\ alerts[j].type = alerts[k].type
          /\ alerts[j].status = "active"
          /\ WithinBox(alerts[j].location, alerts[k].location)
          /\ alerts[k].createdAt <= alerts[j].createdAt + Lookback(alerts[j].type))

\* the severities an _evaluate* gives alerts of a hazard type; storm and
\* cyclone are the two names of one ladder
EmittedSeverities(type) ==
    IF type = "heatwave" THEN {"high", "critical"} ELSE Severities

IsPrefix(s, t) == Len(s) <= Len(t) /\ SubSeq(t, 1, Len(s)) = s

AssignedSeverity(a) ==
    IF a.type = "heatwave"
    THEN HeatSeverity(a.data.temperature)
    ELSE IF TierReached(Measured(a), TableOf(a)) = 0 THEN "none"
    ELSE TierNames[TierReached(Measured(a), TableOf(a))]

\* C25: in every state of the alert store each alert's severity is the tier
\* the threshold tables assign to the measurements stored in it, whether the
\* alert came from the ingestion path or from the manual create operation, and
\* after any update.
C25_SeverityDerivedFromMeasurements ==
    \A k \in 1..Len(alerts) : alerts[k].severity = AssignedSeverity(alerts[k])

\* C26: once an operator has set an ingestion-created alert to resolved or
\* monitoring, no later evaluation run raises a new alert of the same hazard
\* type from the reading that alert was raised from.
C26_ResolvedNotRaisedAgain ==
    \A j, k \in 1..Len(alerts) :
        ~(/\ alerts[j].status \in {"resolved", "monitoring"}
          /\ alerts[j].reading # 0
          /\ alerts[k].reading = alerts[j].reading
          /\ alerts[k].type = alerts[j].type
          /\ alerts[k].tick > alerts[j].tick)

\* the alerts the findOne of a run at its lookup matches
Matching(p) ==
    LET r == sensorData[run[p].data[run[p].i]] IN
    {k \in 1..Len(alerts) :
        FindFilter(alerts[k], CandidateType(r, run[p].phase), r.location, now)}

\* C27: the lookback window of every hazard type is shorter than the
\* time-to-live of its alerts, so an ingestion-created alert that matches a
\* dedup lookup has not reached its expiresAt, and the expiresAt of every
\* ingestion-created alert is later than its createdAt.
C27_SuppressorNotExpired ==
    /\ \A type \in {"earthquake", "storm", "cyclone", "heatwave", "flood"} :
          Lookback(type) < Ttl(type)
    /\ \A k \in 1..Len(alerts) :
          alerts[k].reading # 0 => alerts[k].expiresAt > alerts[k].createdAt
    /\ \A p \in Categories :
          run[p].pc = "lookup"
              => \A k \in Matching(p) :
                    alerts[k].reading # 0 => now < alerts[k].expiresAt

\* a lookup matches an alert whose lookback window ends this minute
C27_Witness ==
    \E p \in Categories :
        /\ run[p].pc = "lookup"
        /\ \E k \in Matching(p) :
              /\ alerts[k].reading # 0
              /\ now = alerts[k].createdAt + Lookback(alerts[k].type)

\* C28: the hazard-type rooms of every live connection are the subscription
\* list recorded for it in connectedClients, a later subscribe replacing the
\* earlier one in both; a connection without a record is in no room.
C28_RoomsEqualSubscriptions ==
    \A c \in Clients :
        rooms[c] = IF c \in DOMAIN connectedClients THEN connectedClients[c] ELSE {}

\* C29: the App's alert list never holds more than 50 alerts; a refresh
\* replaces it with at most 20; a pushed alert is placed at the head, the
\* entries behind it keep their order and the ones dropped are those at the
\* tail.
C29_ClientListBounded ==
    /\ [](Len(appAlerts) <= 50)
    /\ [][/\ FetchAlerts => (appAlerts' = appAlerts \/ Len(appAlerts') <= 20)
          /\ (delivered' = delivered + 1 /\ appAlerts' # appAlerts)
                => /\ appAlerts'[1] = emitted[delivered + 1].id
                   /\ Len(appAlerts') =
                         IF Len(appAlerts) < 50 THEN Len(appAlerts) + 1 ELSE 50
                   /\ \A n \in 2..Len(appAlerts') : appAlerts'[n] = appAlerts[n - 1]
         ]_vars

\* the list is full and its head is the alert of the last push, with more
\* pushes delivered than the list holds
C29_Witness ==
    /\ Len(appAlerts) = 50
    /\ delivered > 51
    /\ emitted[delivered].event = "new-alert"
    /\ appAlerts[1] = emitted[delivered].id
    /\ appAlerts[50] = appAlerts[1] - 49

\* C30: the analyze answer says mlServiceUsed = false only when the call to
\* the ML service failed: whenever the ML service answered, the answer has
\* mlServiceUsed = true and is not the rule-based prediction, also when
\* prediction.save() fails.
C30_FallbackOnlyOnOracleFailure ==
    (response # None /\ response.route = "analyze" /\ response.oracle = "answered")
        => /\ response.mlServiceUsed
           /\ response.prediction.modelUsed # "rule-based-fallback"

====
